---- MODULE Spec2Model ----
(***************************************************************************)
(* VolumePairList (freqtrade/plugins/pairlist/VolumePairList.py): the      *)
(* volume-ranked dynamic pair list with its single-slot TTL cache and the  *)
(* historical-volume override used when a timerange is configured.         *)
(*                                                                         *)
(* A ticker snapshot (a Python dict) is a sequence of entries in the       *)
(* dict's iteration order; the filtered lists of filter_pairlist hold      *)
(* references to the dict's values, so they are kept as keys and read      *)
(* through the snapshot.  Python's None is Null; a raised exception is the *)
(* name of its class.                                                      *)
(***************************************************************************)
EXTENDS Integers, Sequences, FiniteSets, TLC

\* ------------------------------------------------------------------ bounds
\* the largest volume of a ticker or of a candle
MaxVol == 2
\* the largest configured number_assets
MaxAssets == 2
\* the configured min_value when the floor is on
FloorValue == 1
\* the configured refresh_period, in ticks of the clock
RefreshPeriod == 2
\* the clock stops here
MaxTime == 3

\* ------------------------------------------------------------ the universe
Null == -1

Pairs == {"BTC/USDT", "ETH/USDT", "BTC/BUSD"}

\* the order in which exchange.get_tickers() lists the markets
TickerOrder == <<"ETH/USDT", "BTC/BUSD", "BTC/USDT">>

stake_currency == "USDT"

get_pair_quote_currency(pair) ==
    CASE pair = "BTC/USDT" -> "USDT"
      [] pair = "ETH/USDT" -> "USDT"
      [] pair = "BTC/BUSD" -> "BUSD"
      [] OTHER -> ""

NoTimerange == ""
SingleDate == "19700102"
DateRange == "19700102-19700103"

\* 1970-01-02T00:00:00Z in seconds, and one day later
DayTs == 24 * 60 * 60
NextDayTs == DayTs + 24 * 60 * 60

\* ------------------------------------------------------- sequence helpers
Range(s) == {s[i] : i \in 1..Len(s)}

Contains(s, x) == \E i \in 1..Len(s) : s[i] = x

Min(a, b) == IF a < b THEN a ELSE b

IsInjective(s) == \A i, j \in 1..Len(s) : s[i] = s[j] => i = j

SeqsUpTo(S, n) == UNION {[1..k -> S] : k \in 0..n}

\* ------------------------------------------------------- ticker snapshots
Entry(k, v) == [key |-> k, symbol |-> k, quoteVolume |-> v]

Keys(tickers) == {tickers[i].key : i \in 1..Len(tickers)}

HasKey(tickers, k) == \E i \in 1..Len(tickers) : tickers[i].key = k

\* tickers[k]
Item(tickers, k) == tickers[CHOOSE i \in 1..Len(tickers) : tickers[i].key = k]

\* the volume written to every record
SetVolumeOfAll(tickers, k, v) ==
    [i \in 1..Len(tickers) |-> [tickers[i] EXCEPT !.quoteVolume = v]]

\* tickers[k]['quoteVolume'] = v
SetVolume(tickers, k, v) ==
    [i \in 1..Len(tickers) |->
        IF tickers[i].key = k THEN [tickers[i] EXCEPT !.quoteVolume = v]
        ELSE tickers[i]]

\* v['quoteVolume']: None, or a volume: none, at the floor, a unit above it,
\* the largest
TickerVolumes == {0, FloorValue, FloorValue + 1, MaxVol} \cup {Null}

SnapshotOf(f) ==
    LET present == SelectSeq(TickerOrder, LAMBDA k : k \in DOMAIN f)
    IN  [i \in 1..Len(present) |-> Entry(present[i], f[present[i]])]

Snapshots == {SnapshotOf(f) : f \in UNION {[S -> TickerVolumes] : S \in SUBSET Pairs}}

\* a mapping whose records carry a 'symbol' of their own: f[k] = <<symbol, volume>>
RawSnapshotOf(f) ==
    LET present == SelectSeq(TickerOrder, LAMBDA k : k \in DOMAIN f)
    IN  [i \in 1..Len(present) |->
            [key |-> present[i], symbol |-> f[present[i]][1],
             quoteVolume |-> f[present[i]][2]]]

RawSnapshots ==
    {RawSnapshotOf(f) :
        f \in UNION {[S -> Pairs \X TickerVolumes] : S \in SUBSET Pairs}}

\* the mapping is keyed by the symbols of its records, as fetch_tickers builds it
KeyedBySymbol(tickers) == \A i \in 1..Len(tickers) : tickers[i].symbol = tickers[i].key

\* ------------------------------------------------------ filter_pairlist
\* filtered_tickers = [v for k, v in tickers.items() if k in pairlist]
Narrow(pairlist, tickers) ==
    LET hit == SelectSeq(tickers, LAMBDA e : Contains(pairlist, e.key))
    IN  [i \in 1..Len(hit) |-> hit[i].key]

\* v[self._sort_key] > self._min_value raises TypeError on None
FloorRaises(filtered, tickers, minv) ==
    minv > 0 /\ \E i \in 1..Len(filtered) : Item(tickers, filtered[i]).quoteVolume = Null

\* the floor taken as inclusive
FloorStepInclusive(filtered, tickers, minv) ==
    IF minv > 0
    THEN SelectSeq(filtered, LAMBDA k : Item(tickers, k).quoteVolume >= minv)
    ELSE filtered

\* if self._min_value > 0: keep v[self._sort_key] > self._min_value
FloorStep(filtered, tickers, minv) ==
    IF minv > 0
    THEN SelectSeq(filtered, LAMBDA k : Item(tickers, k).quoteVolume > minv)
    ELSE filtered

\* TimeRange.parse_timerange of "<date>-<date>": both ends in seconds
parse_timerange(text) ==
    CASE text = "19700102-19700102" -> [startts |-> DayTs, stopts |-> DayTs]
      [] text = "19700102-19700103" -> [startts |-> DayTs, stopts |-> NextDayTs]

\* '-' in past_date_str
HasDash(past_date_str) == past_date_str = DateRange

\* past_date_str += f'-{past_date_str}'
Doubled(past_date_str) ==
    CASE past_date_str = "19700102" -> "19700102-19700102"

ResolveTimerange(past_date_str) ==
    LET text == IF ~HasDash(past_date_str) THEN Doubled(past_date_str)
                ELSE past_date_str
        tr == parse_timerange(text)
    IN  [tr EXCEPT !.stopts = @ + 24 * 60 * 60 * 1000]

\* int(df.iloc[0]['date'].timestamp()), the date kept in milliseconds
timestamp(date) == date \div 1000

\* data.items(): load_data visits the pairs in the order it was given them
DataItems(pairlist, data) == SelectSeq(pairlist, LAMBDA p : p \in DOMAIN data)

\* the first stored candle taken whatever its date
StoredVolumeAnyDate(df, startts) ==
    IF df # <<>> THEN df[1].volume ELSE 0

\* volume = 0, replaced by the first stored candle's when it starts the window
StoredVolume(df, startts) ==
    IF df # <<>> /\ timestamp(df[1].date) = startts THEN df[1].volume ELSE 0

\* for pair, df in data.items()
RECURSIVE StoreLoop(_, _, _, _)
StoreLoop(items, data, startts, st) ==
    IF items = <<>> \/ st.raised # "none" THEN st
    ELSE LET pair == Head(items)
             volume == StoredVolume(data[pair], startts)
             seen == [st EXCEPT !.processed = Append(@, pair)]
         IN  IF ~HasKey(st.tickers, pair)
             THEN [seen EXCEPT !.raised = "KeyError"]
             ELSE StoreLoop(Tail(items), data, startts,
                      [seen EXCEPT !.tickers = SetVolume(@, pair, volume),
                                   !.store_writes = Append(@, pair)])

\* the `continue` lost
NeverProcessed(processed, pair) == FALSE

\* if pair in processed_pairs: continue
AlreadyProcessed(processed, pair) == Contains(processed, pair)

\* self._exchange.get_historic_ohlcv(pair, '1d', since_ms), as answered
get_historic_ohlcv(ohlcv, pair) == IF pair \in DOMAIN ohlcv THEN ohlcv[pair] ELSE <<>>

\* volume = 0, replaced by candles[0][-1] when candles[0][0] == since_ms
FetchedVolume(candles, since_ms) ==
    IF candles # <<>> /\ candles[1][1] = since_ms
    THEN candles[1][Len(candles[1])] ELSE 0

\* for pair in pairlist
RECURSIVE ExchangeLoop(_, _, _, _)
ExchangeLoop(pairlist, ohlcv, since_ms, st) ==
    IF pairlist = <<>> \/ st.raised # "none" THEN st
    ELSE LET pair == Head(pairlist)
         IN  IF AlreadyProcessed(st.processed, pair)
             THEN ExchangeLoop(Tail(pairlist), ohlcv, since_ms, st)
             ELSE LET candles == get_historic_ohlcv(ohlcv, pair)
                      volume == FetchedVolume(candles, since_ms)
                      asked == [st EXCEPT !.requests = Append(@, pair)]
                  IN  IF ~HasKey(st.tickers, pair)
                      THEN [asked EXCEPT !.raised = "KeyError"]
                      ELSE ExchangeLoop(Tail(pairlist), ohlcv, since_ms,
                               [asked EXCEPT !.tickers = SetVolume(@, pair, volume),
                                             !.exchange_writes = Append(@, pair)])

\* the state of the historical resolution as it starts
NoWindow == [startts |-> 0, stopts |-> 0]

Unresolved(tickers) ==
    [tickers |-> tickers, raised |-> "none", processed |-> <<>>,
     store_writes |-> <<>>, exchange_writes |-> <<>>, requests |-> <<>>,
     timerange |-> NoWindow]

HistoricalOverride(pairlist, tickers, past_date_str, data, ohlcv) ==
    IF past_date_str = NoTimerange THEN Unresolved(tickers)
    ELSE LET timerange == ResolveTimerange(past_date_str)
             stored == StoreLoop(DataItems(pairlist, data), data, timerange.startts,
                                 [Unresolved(tickers) EXCEPT !.timerange = timerange])
         IN  ExchangeLoop(pairlist, ohlcv, timerange.startts * 1000, stored)

\* sorted() compares the keys of a list of two or more: None raises TypeError
SortRaises(filtered, tickers) ==
    Len(filtered) >= 2 /\ \E i \in 1..Len(filtered) : Item(tickers, filtered[i]).quoteVolume = Null

\* a sort that puts the later of two equal keys first
StaysBeforeUnstable(earlier, later) == earlier > later

\* sorted(reverse=True) is stable: of two equal keys the earlier stays first
StaysBefore(earlier, later) == earlier >= later

\* one step of the insertion that sorts: k, later in the input than all of
\* sorted, goes behind every key that stays before it
RECURSIVE InsertDesc(_, _, _)
InsertDesc(sorted, k, tickers) ==
    IF sorted = <<>> THEN <<k>>
    ELSE IF StaysBefore(Item(tickers, Head(sorted)).quoteVolume,
                        Item(tickers, k).quoteVolume)
         THEN <<Head(sorted)>> \o InsertDesc(Tail(sorted), k, tickers)
         ELSE <<k>> \o sorted

\* sorted(filtered_tickers, reverse=True, key=lambda t: t[self._sort_key])
RECURSIVE SortDesc(_, _)
SortDesc(filtered, tickers) ==
    IF filtered = <<>> THEN <<>>
    ELSE InsertDesc(SortDesc(SubSeq(filtered, 1, Len(filtered) - 1), tickers),
                    filtered[Len(filtered)], tickers)

\* every record read as the first one
SymbolsOfFirst(keys, tickers) == [i \in 1..Len(keys) |-> Item(tickers, keys[1]).symbol]

\* [s['symbol'] for s in sorted_tickers]
Symbols(keys, tickers) == [i \in 1..Len(keys) |-> Item(tickers, keys[i]).symbol]

whitelist_for_active_markets(pairs, inactive) ==
    SelectSeq(pairs, LAMBDA p : p \notin inactive)

verify_blacklist(pairs, blacklist) ==
    SelectSeq(pairs, LAMBDA p : p \notin blacklist)

\* the slice lost
TruncateNot(pairs, n) == pairs

\* pairs[:self._number_pairs]
Truncate(pairs, n) == SubSeq(pairs, 1, Min(n, Len(pairs)))

\* the slice taken before the two filters
LimitThenValidate(sorted, inactive, blacklist, n) ==
    verify_blacklist(whitelist_for_active_markets(Truncate(sorted, n), inactive),
                     blacklist)

\* the active-market filter, the blacklist filter, then the slice
ValidateThenLimit(sorted, inactive, blacklist, n) ==
    Truncate(verify_blacklist(whitelist_for_active_markets(sorted, inactive),
                              blacklist), n)

NoRun(tickers) ==
    [raised |-> "none", pairs |-> <<>>, tickers |-> tickers, floored |-> <<>>,
     sorted |-> <<>>, sort_reached |-> FALSE, store_writes |-> <<>>,
     exchange_writes |-> <<>>, requests |-> <<>>, timerange |-> NoWindow]

filter_pairlist(pairlist, tickers, cfg, env) ==
    LET filtered == Narrow(pairlist, tickers)
    IN  IF FloorRaises(filtered, tickers, cfg.min_value)
        THEN [NoRun(tickers) EXCEPT !.raised = "TypeError"]
        ELSE LET floored == FloorStep(filtered, tickers, cfg.min_value)
                 hist == HistoricalOverride(pairlist, tickers, cfg.timerange,
                                            env.data, env.ohlcv)
                 seen == [NoRun(hist.tickers) EXCEPT
                             !.floored = floored,
                             !.store_writes = hist.store_writes,
                             !.exchange_writes = hist.exchange_writes,
                             !.requests = hist.requests,
                             !.timerange = hist.timerange]
             IN  IF hist.raised # "none"
                 THEN [seen EXCEPT !.raised = hist.raised]
                 ELSE IF SortRaises(floored, hist.tickers)
                 THEN [seen EXCEPT !.raised = "TypeError", !.sort_reached = TRUE]
                 ELSE LET sorted_tickers == SortDesc(floored, hist.tickers)
                          sorted == Symbols(sorted_tickers, hist.tickers)
                      IN  [seen EXCEPT !.sorted = sorted, !.sort_reached = TRUE,
                                       !.pairs = ValidateThenLimit(sorted, env.inactive,
                                                     env.blacklist, cfg.number_assets)]

\* ------------------------------------------------------------ the inputs
\* the pairlist an earlier handler of the chain hands over: no symbol twice,
\* at most two symbols
CandidateLists == {pl \in SeqsUpTo(Pairs, 2) : IsInjective(pl)}

\* the volume of a candle: none, the least, the largest
CandleVolumes == {0, 1, MaxVol}

\* what the data store holds for a pair: no candle in the window, or a first
\* candle on the window's first day or on the next
DataFrames ==
    {<<>>} \cup {<<[date |-> DayTs * 1000, volume |-> v]>> : v \in CandleVolumes}
           \cup {<<[date |-> NextDayTs * 1000, volume |-> MaxVol]>>}

\* what the exchange answers: candles are [timestamp, ..., volume]
CandleLists ==
    {<<>>} \cup {<< <<DayTs * 1000, v>> >> : v \in CandleVolumes}
           \cup {<< <<NextDayTs * 1000, MaxVol>> >>}

StoreResults(pairlist) == UNION {[S -> DataFrames] : S \in SUBSET Range(pairlist)}

ExchangeResults(pairlist, data) == [Range(pairlist) \ DOMAIN data -> CandleLists]

NoHistory == [data |-> <<>>, ohlcv |-> <<>>]

Histories(pairlist, past_date_str) ==
    IF past_date_str = NoTimerange THEN {NoHistory}
    ELSE {[data |-> d, ohlcv |-> o] : <<d, o>> \in
             UNION {{<<d, o>> : o \in ExchangeResults(pairlist, d)} :
                       d \in StoreResults(pairlist)}}

\* the markets the exchange reports inactive and the configured blacklist:
\* between them at most one pair
Drops == {dr \in [inactive : SUBSET Pairs, blacklist : SUBSET Pairs] :
             Cardinality(dr.inactive) + Cardinality(dr.blacklist) <= 1}


\* ------------------------------------------------------------ gen_pairlist
\* TTLCache(maxsize=1, ttl=self._refresh_period): the one slot.  The module
\* cachetools.ttl exists up to cachetools 4, where an item is expired once
\* its expiry time is less than the timer's reading.
NoCache == [set |-> FALSE, value |-> <<>>, expire |-> 0]

\* an item kept one tick too long
ExpiredLate(cache, time) == cache.expire + 1 < time

Expired(cache, time) == cache.expire < time

\* self._pair_cache.get('pairlist')
CacheGet(cache, time) ==
    IF cache.set /\ ~Expired(cache, time)
    THEN [found |-> TRUE, value |-> cache.value]
    ELSE [found |-> FALSE, value |-> <<>>]

\* an item stored for one tick more than the ttl
CacheSetLonger(value, time, ttl) ==
    [set |-> TRUE, value |-> value, expire |-> time + ttl + 1]

\* self._pair_cache['pairlist'] = pairlist
CacheSet(value, time, ttl) == [set |-> TRUE, value |-> value, expire |-> time + ttl]

\* `if pairlist:` is false for None and for the empty list
Truthy(got) == got.found /\ got.value # <<>>

\* the quote currency not compared
GenCandidatesAnyQuote(tickers) ==
    LET filtered_tickers == SelectSeq(tickers, LAMBDA e : e.quoteVolume # Null)
    IN  [i \in 1..Len(filtered_tickers) |-> filtered_tickers[i].symbol]

\* [s['symbol'] for s in filtered_tickers], filtered_tickers the tickers in
\* the stake currency whose sort key is not None
GenCandidates(tickers) ==
    LET filtered_tickers ==
            SelectSeq(tickers, LAMBDA e :
                get_pair_quote_currency(e.key) = stake_currency
                /\ e.quoteVolume # Null)
    IN  [i \in 1..Len(filtered_tickers) |-> filtered_tickers[i].symbol]

Returned(value) == [raised |-> "none", value |-> value]

Raised(exception) == [raised |-> exception, value |-> <<>>]

NoReturn == [raised |-> "none", value |-> <<>>]

\* ---------------------------------------------------------------- state
VARIABLES
    pairlistconfig,  \* self._pairlistconfig
    sort_key,        \* self._sort_key
    number_assets, min_value, refresh_period, timerange,  \* the configuration
    now,         \* the reading of the cache's timer
    pair_cache,  \* self._pair_cache
    pc,          \* "idle", or "returned" while the caller holds a result
    op,          \* the operation that ran
    pairlist_in, \* its pairlist (gen_pairlist: the one it built)
    tickers_in,  \* its tickers argument as passed
    env,         \* what the collaborators answered during the call
    run,         \* what filter_pairlist did, when it ran
    cache_in,    \* self._pair_cache as gen_pairlist found it
    recomputed,  \* whether gen_pairlist took the branch that recomputes
    ret          \* what the operation returned or raised

vars == <<pairlistconfig, sort_key, number_assets, min_value, refresh_period,
          timerange, now, pair_cache,
          pc, op, pairlist_in, tickers_in, env, run, cache_in, recomputed, ret>>

config == <<pairlistconfig, sort_key, number_assets, min_value, refresh_period,
            timerange>>

call == <<op, pairlist_in, tickers_in, env, run, cache_in, recomputed, ret>>

Cfg == [number_assets |-> number_assets, min_value |-> min_value,
        timerange |-> timerange]

NoEnv == [data |-> <<>>, ohlcv |-> <<>>, inactive |-> {}, blacklist |-> {}]

NoCall ==
    /\ op = "none"
    /\ pairlist_in = <<>>
    /\ tickers_in = <<>>
    /\ env = NoEnv
    /\ run = NoRun(<<>>)
    /\ cache_in = NoCache
    /\ recomputed = FALSE
    /\ ret = NoReturn

\* ---------------------------------------------------------------- __init__
\* a key the pairlist configuration does not hold
Absent == -2

NoSortKey == ""

SORT_VALUES == {"quoteVolume"}

DefaultMinValue == 0

DefaultRefreshPeriod == 1800

\* self._pairlistconfig.get(key, default)
ConfigGet(value, default, absent) == IF value = absent THEN default ELSE value

\* a validation that accepts every key
validate_keys_any(key) == TRUE

\* return key in SORT_VALUES
validate_keys(key) == key \in SORT_VALUES

\* the pairlist configurations a user can write
PairlistConfigs ==
    [number_assets : {Absent} \cup (1..MaxAssets),
     sort_key : {NoSortKey, "quoteVolume", "volume"},
     min_value : {Absent, 0, FloorValue},
     refresh_period : {Absent, RefreshPeriod}]

\* the object as __init__ leaves it: the attributes assigned before the
\* first raise, or all of them
Construct(plc, exchange_has_fetchTickers) ==
    LET none == [raised |-> "none", number_pairs |-> Absent, sort_key |-> NoSortKey,
                 min_value |-> Absent, refresh_period |-> Absent]
        assigned == [none EXCEPT
                        !.number_pairs = plc.number_assets,
                        !.sort_key = ConfigGet(plc.sort_key, "quoteVolume", NoSortKey),
                        !.min_value = ConfigGet(plc.min_value, DefaultMinValue, Absent),
                        !.refresh_period =
                            ConfigGet(plc.refresh_period, DefaultRefreshPeriod, Absent)]
    IN  IF plc.number_assets = Absent
        THEN [none EXCEPT !.raised = "OperationalException"]
        ELSE IF ~exchange_has_fetchTickers
        THEN [assigned EXCEPT !.raised = "OperationalException"]
        ELSE IF ~validate_keys(assigned.sort_key)
        THEN [assigned EXCEPT !.raised = "OperationalException"]
        ELSE assigned

Init ==
    /\ number_assets \in 1..MaxAssets
    /\ min_value \in {0, FloorValue}
    /\ refresh_period = RefreshPeriod
    /\ timerange \in {NoTimerange, SingleDate}
    /\ sort_key = "quoteVolume"
    /\ pairlistconfig = [number_assets |-> number_assets, sort_key |-> sort_key,
                         min_value |-> min_value, refresh_period |-> refresh_period]
    /\ now = 0
    /\ pair_cache = NoCache
    /\ pc = "idle"
    /\ NoCall

\* time passes between two iterations of the bot
Tick ==
    /\ pc = "idle"
    /\ now < MaxTime
    /\ now' = now + 1
    /\ UNCHANGED <<config, pair_cache, pc, call>>

GenPairlistOn(snapshots) ==
    /\ pc = "idle"
    /\ pc' = "returned"
    /\ op' = "gen_pairlist"
    /\ cache_in' = pair_cache
    /\ \E tickers \in snapshots :
         LET got == CacheGet(pair_cache, now)
         IN  /\ tickers_in' = tickers
             /\ IF Truthy(got)
                THEN /\ ret' = Returned(got.value)
                     /\ recomputed' = FALSE
                     /\ pairlist_in' = <<>>
                     /\ env' = NoEnv
                     /\ run' = NoRun(tickers)
                     /\ UNCHANGED pair_cache
                ELSE LET pairlist == GenCandidates(tickers)
                     IN  \E h \in Histories(pairlist, timerange) :
                            /\ recomputed' = TRUE
                            /\ pairlist_in' = pairlist
                            /\ env' = [data |-> h.data, ohlcv |-> h.ohlcv,
                                       inactive |-> {}, blacklist |-> {}]
                            /\ run' = filter_pairlist(pairlist, tickers, Cfg, env')
                            /\ IF run'.raised = "none"
                               THEN /\ pair_cache' = CacheSet(run'.pairs, now, refresh_period)
                                    /\ ret' = Returned(run'.pairs)
                               ELSE /\ ret' = Raised(run'.raised)
                                    /\ UNCHANGED pair_cache
    /\ UNCHANGED <<config, now>>

\* gen_pairlist(tickers), tickers as exchange.get_tickers() returns them
GenPairlist == GenPairlistOn(Snapshots)

\* the caller is done with the result: the next iteration starts
Done ==
    /\ pc = "returned"
    /\ pc' = "idle"
    /\ op' = "none"
    /\ pairlist_in' = <<>>
    /\ tickers_in' = <<>>
    /\ env' = NoEnv
    /\ run' = NoRun(<<>>)
    /\ cache_in' = NoCache
    /\ recomputed' = FALSE
    /\ ret' = NoReturn
    /\ UNCHANGED <<config, now, pair_cache>>

Next == Tick \/ GenPairlist \/ Done

Spec == Init /\ [][Next]_vars

\* filter_pairlist called by the pairlist manager, this handler not the first
\* of the chain
FilterPairlistOn(snapshots) ==
    /\ pc = "idle"
    /\ pc' = "returned"
    /\ op' = "filter_pairlist"
    /\ cache_in' = NoCache
    /\ recomputed' = FALSE
    /\ \E pairlist \in CandidateLists, tickers \in snapshots, dr \in Drops :
         \E h \in Histories(pairlist, timerange) :
            /\ pairlist_in' = pairlist
            /\ tickers_in' = tickers
            /\ env' = [data |-> h.data, ohlcv |-> h.ohlcv,
                       inactive |-> dr.inactive, blacklist |-> dr.blacklist]
            /\ run' = filter_pairlist(pairlist, tickers, Cfg, env')
            /\ ret' = IF run'.raised = "none" THEN Returned(run'.pairs)
                      ELSE Raised(run'.raised)
    /\ UNCHANGED <<config, now, pair_cache>>

FilterPairlist == FilterPairlistOn(Snapshots)

NextFilter == FilterPairlist

SpecFilter == Init /\ [][NextFilter]_vars

\* both operations on any mapping of records, live
InitRaw == Init /\ timerange = NoTimerange

GenPairlistRaw == GenPairlistOn(RawSnapshots)

FilterPairlistRaw == FilterPairlistOn(RawSnapshots)

NextRaw == GenPairlistRaw \/ FilterPairlistRaw

SpecRaw == InitRaw /\ [][NextRaw]_vars

\* filter_pairlist with a timerange configured, as one date or as a range
InitWindow ==
    /\ number_assets = MaxAssets
    /\ min_value = 0
    /\ refresh_period = RefreshPeriod
    /\ timerange \in {SingleDate, DateRange}
    /\ sort_key = "quoteVolume"
    /\ pairlistconfig = [number_assets |-> number_assets, sort_key |-> sort_key,
                         min_value |-> min_value, refresh_period |-> refresh_period]
    /\ now = 0
    /\ pair_cache = NoCache
    /\ pc = "idle"
    /\ NoCall

SpecWindow == InitWindow /\ [][NextFilter]_vars

\* no object yet: the pairlist manager is about to construct the handler
InitNew ==
    /\ pairlistconfig = [number_assets |-> Absent, sort_key |-> NoSortKey,
                         min_value |-> Absent, refresh_period |-> Absent]
    /\ sort_key = NoSortKey
    /\ number_assets = Absent
    /\ min_value = Absent
    /\ refresh_period = Absent
    /\ timerange = NoTimerange
    /\ now = 0
    /\ pair_cache = NoCache
    /\ pc = "new"
    /\ NoCall

\* VolumePairList(exchange, pairlistmanager, config, pairlistconfig, pos)
New ==
    /\ pc = "new"
    /\ op' = "__init__"
    /\ \E plc \in PairlistConfigs, has \in BOOLEAN :
         LET built == Construct(plc, has)
         IN  /\ pairlistconfig' = plc
             /\ env' = [fetchTickers |-> has]
             /\ number_assets' = built.number_pairs
             /\ sort_key' = built.sort_key
             /\ min_value' = built.min_value
             /\ refresh_period' = built.refresh_period
             /\ ret' = Raised(built.raised)
             /\ pc' = IF built.raised = "none" THEN "idle" ELSE "failed"
    /\ UNCHANGED <<timerange, now, pair_cache, pairlist_in, tickers_in, run,
                   cache_in, recomputed>>

NextNew == New

SpecNew == InitNew /\ [][NextNew]_vars

\* ------------------------------------------------------------------ Bybit
\* a market of the exchange: some of the flags, each True, False or None
MarketFlags == {"spot", "future", "swap"}

Markets == UNION {[S -> {"True", "False", "None"}] : S \in SUBSET MarketFlags}

\* market.get(key, default)
market_get(market, key, default) ==
    IF key \in DOMAIN market THEN market[key] ELSE default

\* a or b: a when a is truthy, b otherwise
PyOr(a, b) == IF a = "True" THEN a ELSE b

\* return market.get('future', False) or market.get('spot', False)
market_is_tradable(market) ==
    PyOr(market_get(market, "future", "False"), market_get(market, "spot", "False"))

\* Bybit.market_is_tradable(market), the exchange configured with or without
\* futures trading
MarketIsTradable ==
    /\ pc = "new"
    /\ pc' = "returned"
    /\ op' = "market_is_tradable"
    /\ \E market \in Markets, futures \in BOOLEAN :
          /\ env' = [market |-> market, futures_enabled |-> futures]
          /\ ret' = Returned(market_is_tradable(market))
    /\ UNCHANGED <<config, now, pair_cache, pairlist_in, tickers_in, run,
                   cache_in, recomputed>>

NextBybit == MarketIsTradable

SpecBybit == InitNew /\ [][NextBybit]_vars

\* ------------------------------------------------------------ properties
Count(s, x) == Cardinality({i \in 1..Len(s) : s[i] = x})

\* the sort metric of a symbol in a snapshot
Metric(tickers, k) == Item(tickers, k).quoteVolume

GenReturned == op = "gen_pairlist" /\ ret.raised = "none"

FilterReturned == op = "filter_pairlist" /\ ret.raised = "none"

Replay == timerange # NoTimerange

\* the first candle the store returned for p starts the window
FirstStoredAtStart(p) ==
    p \in DOMAIN env.data /\ env.data[p] # <<>> /\ env.data[p][1].date = DayTs * 1000

\* the first candle the exchange returned for p starts the window
FirstFetchedAtStart(p) ==
    p \in DOMAIN env.ohlcv /\ env.ohlcv[p] # <<>> /\ env.ohlcv[p][1][1] = DayTs * 1000

\* C1: a list gen_pairlist returns, from the cache or recomputed, live or
\* replay, is never longer than number_assets.
C1_LengthBounded == GenReturned => Len(ret.value) <= number_assets

\* C1 witness: a recomputation ranked more symbols than number_assets and
\* returned exactly number_assets of them.
C1_Witness ==
    /\ GenReturned /\ recomputed
    /\ Len(run.sorted) > number_assets
    /\ Len(ret.value) = number_assets

\* C2 as claimed: a call less than refresh_period after the call that
\* computed and stored a list (the empty list included) returns that list
\* and does not recompute, whatever tickers it is given.
C2_HitWithinTtl ==
    (op = "gen_pairlist" /\ cache_in.set /\ now < cache_in.expire)
        => (~recomputed /\ ret = Returned(cache_in.value))

C4_RankedAboveFloor ==
    (GenReturned /\ recomputed) =>
        \A i \in 1..Len(ret.value) :
            /\ Metric(run.tickers, ret.value[i]) # Null
            /\ min_value > 0 => Metric(run.tickers, ret.value[i]) > min_value

\* C5: the list filter_pairlist returns descends by the metric the snapshot
\* holds at the sort, and symbols of equal metric keep the snapshot's
\* iteration order.
C5_SortedStable ==
    FilterReturned =>
        \A i, j \in 1..Len(ret.value) :
            i < j =>
                LET a == ret.value[i]
                    b == ret.value[j]
                    pos(k) == CHOOSE n \in 1..Len(run.tickers) : run.tickers[n].key = k
                IN  /\ Metric(run.tickers, a) >= Metric(run.tickers, b)
                    /\ Metric(run.tickers, a) = Metric(run.tickers, b) => pos(a) < pos(b)

\* C5 witness: in replay two symbols got the same historical volume; the
\* live volumes and the candidate list would order them the other way.
C5_Witness ==
    /\ FilterReturned /\ Replay
    /\ ret.value = <<"ETH/USDT", "BTC/USDT">>
    /\ pairlist_in = <<"BTC/USDT", "ETH/USDT">>
    /\ Metric(run.tickers, "ETH/USDT") = Metric(run.tickers, "BTC/USDT")
    /\ Metric(tickers_in, "ETH/USDT") < Metric(tickers_in, "BTC/USDT")

\* C6: every symbol gen_pairlist returns is quoted in the stake currency.
C6_StakeCurrencyOnly ==
    GenReturned =>
        \A i \in 1..Len(ret.value) :
            get_pair_quote_currency(ret.value[i]) = stake_currency

\* C6 witness: the snapshot held a pair of another quote currency with the
\* highest volume, and the call returned pairs without it.
C6_Witness ==
    /\ GenReturned /\ recomputed
    /\ HasKey(tickers_in, "BTC/BUSD")
    /\ Metric(tickers_in, "BTC/BUSD") = MaxVol
    /\ ret.value # <<>>
    /\ \A i \in 1..Len(ret.value) : Metric(tickers_in, ret.value[i]) < MaxVol

\* C7: live, with min_value > 0, a candidate whose metric is min_value is not
\* returned, and one whose metric is min_value + 1 passes the floor and is
\* returned when active and not blacklisted unless number_assets symbols
\* that rank no lower fill the list; with min_value = 0 the floor removes
\* nothing.
C7_FloorExclusive ==
    (FilterReturned /\ ~Replay) =>
        \A k \in Range(pairlist_in) \cap Keys(tickers_in) :
            /\ (min_value > 0 /\ Metric(tickers_in, k) = min_value)
                   => ~Contains(run.floored, k) /\ ~Contains(ret.value, k)
            /\ (min_value > 0 /\ Metric(tickers_in, k) = min_value + 1)
                   => /\ Contains(run.floored, k)
                      /\ (k \notin env.inactive /\ k \notin env.blacklist
                             /\ ~Contains(ret.value, k))
                           => /\ Len(ret.value) = number_assets
                              /\ \A i \in 1..Len(ret.value) :
                                    Metric(tickers_in, ret.value[i]) >= Metric(tickers_in, k)
            /\ min_value = 0 => Contains(run.floored, k)

\* C7 witness: of two candidates the one at the floor was dropped and the
\* one a unit above it was returned.
C7_Witness ==
    /\ FilterReturned /\ ~Replay /\ min_value > 0
    /\ Len(pairlist_in) = 2
    /\ Len(ret.value) = 1
    /\ Metric(tickers_in, ret.value[1]) = min_value + 1
    /\ \E k \in Range(pairlist_in) \cap Keys(tickers_in) :
          Metric(tickers_in, k) = min_value

\* C8: in replay a candidate whose first stored or fetched candle starts the
\* window is ranked with that candle's volume; any other candidate is ranked
\* with 0, behind every candidate of positive volume, and stays in the
\* ranking.
C8_HistoricalOverride ==
    (FilterReturned /\ Replay) =>
        /\ \A p \in Range(pairlist_in) :
              /\ FirstStoredAtStart(p) => Metric(run.tickers, p) = env.data[p][1].volume
              /\ FirstFetchedAtStart(p) => Metric(run.tickers, p) = env.ohlcv[p][1][2]
              /\ (~FirstStoredAtStart(p) /\ ~FirstFetchedAtStart(p))
                    => Metric(run.tickers, p) = 0
        /\ \A k \in Range(run.floored) : Contains(run.sorted, k)
        /\ \A i, j \in 1..Len(run.sorted) :
              (Metric(run.tickers, run.sorted[i]) > 0
                  /\ ~FirstStoredAtStart(run.sorted[j])
                  /\ ~FirstFetchedAtStart(run.sorted[j])) => i < j

\* C8 witness: the first symbol returned has the lower live volume and a
\* stored candle at the window's start; the second has the highest live
\* volume and no candle there.
C8_Witness ==
    /\ FilterReturned /\ Replay
    /\ Len(ret.value) = 2
    /\ FirstStoredAtStart(ret.value[1])
    /\ env.data[ret.value[1]][1].volume = 1
    /\ Metric(tickers_in, ret.value[1]) = 0
    /\ ~FirstStoredAtStart(ret.value[2]) /\ ~FirstFetchedAtStart(ret.value[2])
    /\ Metric(tickers_in, ret.value[2]) = MaxVol
    /\ Metric(run.tickers, ret.value[2]) = 0

\* C9: in replay, when the sort is reached, each candidate's quoteVolume was
\* written once, by the store loop or by the exchange loop, and holds a
\* number.
C9_WrittenOnce ==
    (op = "filter_pairlist" /\ Replay /\ run.sort_reached) =>
        \A p \in Range(pairlist_in) :
            /\ Count(run.store_writes, p) + Count(run.exchange_writes, p) = 1
            /\ Metric(run.tickers, p) # Null

\* C9 witness: one candidate was written by the store loop, another by the
\* exchange loop, and one of them had no live volume.
C9_Witness ==
    /\ op = "filter_pairlist" /\ Replay /\ run.sort_reached
    /\ Len(run.store_writes) = 1
    /\ Len(run.exchange_writes) = 1
    /\ \E p \in Range(pairlist_in) : Metric(tickers_in, p) = Null

\* C10 as claimed: live or replay, a call whose candidate list names a
\* symbol the snapshot lacks (its other candidates holding numbers) returns
\* without raising, and the result is without that symbol.
C10_AbsentSymbolTolerated ==
    (/\ op = "filter_pairlist"
     /\ \E p \in Range(pairlist_in) : ~HasKey(tickers_in, p)
     /\ \A k \in Range(pairlist_in) \cap Keys(tickers_in) : Metric(tickers_in, k) # Null)
        => /\ ret.raised = "none"
           /\ \A p \in Range(pairlist_in) :
                 ~HasKey(tickers_in, p) => ~Contains(ret.value, p)

\* C11: construction raises a configuration error and leaves no instance
\* when number_assets is missing, when the exchange has no fetchTickers, or
\* when the sort key is not in SORT_VALUES; otherwise it succeeds, with
\* sort_key 'quoteVolume', min_value 0 and refresh_period 1800 for the
\* options left unset.
C11_ConstructionValidated ==
    op = "__init__" =>
        LET missing == pairlistconfig.number_assets = Absent
            unsupported == ~env.fetchTickers
            bad_key == pairlistconfig.sort_key \notin {NoSortKey, "quoteVolume"}
            fails == missing \/ unsupported \/ bad_key
        IN  /\ fails => (ret.raised = "OperationalException" /\ pc = "failed")
            /\ ~fails =>
                  /\ ret.raised = "none" /\ pc = "idle"
                  /\ number_assets = pairlistconfig.number_assets
                  /\ sort_key = "quoteVolume"
                  /\ min_value = (IF pairlistconfig.min_value = Absent THEN 0
                                  ELSE pairlistconfig.min_value)
                  /\ refresh_period = (IF pairlistconfig.refresh_period = Absent THEN 1800
                                       ELSE pairlistconfig.refresh_period)

\* C11 witness: a configuration that sets only number_assets was accepted
\* with the defaults.
C11_Witness ==
    /\ op = "__init__" /\ pc = "idle"
    /\ pairlistconfig.sort_key = NoSortKey
    /\ pairlistconfig.min_value = Absent
    /\ pairlistconfig.refresh_period = Absent
    /\ refresh_period = 1800

\* C11 witness of the rejection: a sort key outside SORT_VALUES was the only
\* fault and the construction failed.
C11_Rejected ==
    /\ op = "__init__" /\ pc = "failed"
    /\ pairlistconfig.number_assets # Absent /\ env.fetchTickers
    /\ pairlistconfig.sort_key = "volume"

C13_StopWidenedForSingleDate ==
    (FilterReturned /\ Replay) =>
        /\ run.timerange.startts = DayTs
        /\ timerange = SingleDate => run.timerange.stopts = DayTs + 24 * 60 * 60
        /\ timerange = DateRange => run.timerange.stopts = NextDayTs

\* a ranked symbol the two filters let through
Eligible(k) == k \notin env.inactive /\ k \notin env.blacklist

\* C14: filter_pairlist returns the first number_assets symbols, in rank
\* order, of the candidates that pass the floor, are active and are not
\* blacklisted: a top-ranked pair that is filtered out is replaced by the
\* next eligible one.
C14_TruncationLast ==
    FilterReturned =>
        LET eligible == SelectSeq(run.sorted, Eligible)
        IN  /\ Range(run.sorted) = Range(run.floored)
            /\ Len(ret.value) = Min(number_assets, Len(eligible))
            /\ ret.value = SubSeq(eligible, 1, Len(ret.value))

\* C14 witness: the top-ranked of number_assets + 1 candidates was filtered
\* out and the list is still full.
C14_Witness ==
    /\ FilterReturned
    /\ Len(run.sorted) = number_assets + 1
    /\ ~Eligible(run.sorted[1])
    /\ Len(ret.value) = number_assets

\* C15: filter_pairlist adds and removes no ticker entry; with no timerange
\* it leaves the snapshot as it was, and with a timerange it changes nothing
\* but the quoteVolume of symbols of the candidate list.
C15_SnapshotChangedByOverrideOnly ==
    op = "filter_pairlist" =>
        /\ Len(run.tickers) = Len(tickers_in)
        /\ \A i \in 1..Len(tickers_in) :
              /\ run.tickers[i].key = tickers_in[i].key
              /\ run.tickers[i].symbol = tickers_in[i].symbol
              /\ run.tickers[i].quoteVolume # tickers_in[i].quoteVolume
                    => (Replay /\ Contains(pairlist_in, tickers_in[i].key))

\* C15 witness: in replay a candidate's volume was rewritten and a ticker
\* outside the candidate list kept its own.
C15_Witness ==
    /\ op = "filter_pairlist" /\ Replay
    /\ \E i, j \in 1..Len(tickers_in) :
          /\ run.tickers[i].quoteVolume # tickers_in[i].quoteVolume
          /\ ~Contains(pairlist_in, tickers_in[j].key)
          /\ tickers_in[j].quoteVolume = MaxVol
          /\ run.tickers[j].quoteVolume = MaxVol

\* the data store returned a frame for p
StoreReturned(p) == p \in DOMAIN env.data

\* C16 as claimed: in replay get_historic_ohlcv is issued once for each
\* candidate the data store did not return and never for one it returned; a
\* returned candidate whose first candle misses the window start is
\* resolved to 0 without a request.
C16_OneRequestPerMissingCandidate ==
    (op = "filter_pairlist" /\ Replay) =>
        \A p \in Range(pairlist_in) :
            /\ ~StoreReturned(p) => Count(run.requests, p) = 1
            /\ StoreReturned(p) => Count(run.requests, p) = 0
            /\ (StoreReturned(p) /\ ~FirstStoredAtStart(p))
                  => (HasKey(run.tickers, p) /\ Metric(run.tickers, p) = 0)

\* What holds of the requests in every call: get_historic_ohlcv is never
\* issued for a candidate the data store returned and at most once for any
\* other; when the call reaches the sort, it was issued once for each
\* candidate the store did not return, and a returned candidate whose first
\* candle misses the window start is resolved to 0.
RequestsWhenSortReached ==
    (op = "filter_pairlist" /\ Replay) =>
        \A p \in Range(pairlist_in) :
            /\ StoreReturned(p) => Count(run.requests, p) = 0
            /\ Count(run.requests, p) <= 1
            /\ run.sort_reached =>
                  /\ ~StoreReturned(p) => Count(run.requests, p) = 1
                  /\ (StoreReturned(p) /\ ~FirstStoredAtStart(p))
                        => Metric(run.tickers, p) = 0

\* A call that reaches the sort: the store returned one candidate with a first candle a day
\* late, resolved to 0 from the highest live volume without a request; the
\* exchange was asked once for the other.
RequestsWhenSortReachedSeen ==
    /\ op = "filter_pairlist" /\ Replay /\ run.sort_reached
    /\ \E p, q \in Range(pairlist_in) :
          /\ StoreReturned(p) /\ env.data[p] # <<>> /\ ~FirstStoredAtStart(p)
          /\ Metric(tickers_in, p) = MaxVol
          /\ Metric(run.tickers, p) = 0
          /\ run.requests = <<q>>

\* the flag of the market asked about is set
Flagged(key) == key \in DOMAIN env.market /\ env.market[key] = "True"

\* C17 as claimed: Bybit's market_is_tradable is true for every spot market,
\* true for a futures market only when the configuration enables futures
\* trading, and not true for a market that is neither.
C17_FuturesOnlyWhenEnabled ==
    op = "market_is_tradable" =>
        /\ Flagged("spot") => ret.value = "True"
        /\ (Flagged("future") /\ ~Flagged("spot") /\ ret.value = "True")
              => env.futures_enabled
        /\ (~Flagged("spot") /\ ~Flagged("future")) => ret.value # "True"

====
